---- MODULE Spec2Model ----
(***************************************************************************)
(* A model of python-netsnmpagent's netsnmpAgent (src/netsnmpagent.py):    *)
(* the connection status machine driven by start(), the net-snmp log       *)
(* callback and the index-stop callback; the object registry filled by the *)
(* scalar wrappers and by Table(); and the table engine (rows, canonical   *)
(* row index, row counter).                                                *)
(*                                                                         *)
(* Specifications: Spec (the agent and its connection status), TableSpec   *)
(* (the rows of a table), CellSpec (row cells, value() and clear()),       *)
(* RegistrySpec (the object registry), OidSpec (the OID codec), AddSpec    *)
(* (the variables of a trap PDU), TrapSpec (send_trap) and HandlerSpec     *)
(* (requests for an object with a custom callback).                        *)
(*                                                                         *)
(* net-snmp itself (libnsa / libnsX) is outside the repository.  Its calls *)
(* appear here as inputs of the actions: the result code of a registration *)
(* call, the log messages and index-stop signals it delivers to the two    *)
(* callbacks.  The row list kept by netsnmp_table_data_add_row is modelled *)
(* as net-snmp keeps it: ordered by index OID, a row whose index OID is    *)
(* already present is refused.                                             *)
(***************************************************************************)
EXTENDS Integers, Sequences, FiniteSets, TLC

VARIABLES
    status,       \* self._status
    LogHandler,   \* constructor argument: TRUE when a LogHandler function was given
    UseMIBFiles,  \* constructor argument
    Python3,      \* the interpreter the module runs under (sys.version_info > (3,))
    objs,         \* self._objs: context -> (oidstr -> registered object)
    pc,           \* "idle", or "init_snmp" while start() is inside libnsa.init_snmp()
    raised,       \* number of times start() raised the connection error
    attempt,      \* the current/last init_snmp() call: [from: the status at the call,
                  \*   failedFirst: a failure event came in it while the status was
                  \*     FIRSTCONNECT and no connected event had come,
                  \*   connected: a connected event came in it,
                  \*   out: "running", or how start() ended: "ok", "ConnectionFailed"]
    ret,          \* the last operation or callback: [op, arg, out]
    tick,         \* flips with every operation or callback
    handlerOut,   \* what the last step passed to self.LogHandler: sequence of <<msgprio, msgtext>>
    stderrOut,    \* what the last step printed: sequence of <<msgprio, msgtext>>
    table,        \* the Table object created last: "none" or [indexes, oidstr, context,
                  \*   counterobj, columns: the dataset's default_row, column -> [type, value]]
    rows,         \* its dataset's rows, in net-snmp's order: sequence of
                  \*   [index_oid, data: column -> [type, value]]
    counter,      \* the value of the counterobj handed to Table()
    adds,         \* number of addRow() calls made on the table
    sets          \* number of setRowCell()/setRowColumn() calls made on the table

vars == <<status, LogHandler, UseMIBFiles, Python3, objs, pc,
          raised, attempt, ret, tick, handlerOut, stderrOut, table, rows, counter, adds,
          sets>>

configVars == <<LogHandler, UseMIBFiles, Python3>>
tableVars == <<table, rows, counter, adds, sets>>

(***************************************************************************)
(* Bounds of the model.                                                    *)
(***************************************************************************)
MaxRaised == 2
MaxIdx == 1
MaxAdds == 3
MaxCounterInit == 1
MaxSets == 2
MaxOidLen == 2

(***************************************************************************)
(* netsnmpAgentStatus                                                      *)
(***************************************************************************)
netsnmpAgentStatus ==
    {"REGISTRATION", "FIRSTCONNECT", "CONNECTFAILED", "CONNECTED", "RECONNECTING"}

(***************************************************************************)
(* Log messages.  A message text is a sequence of words; the words are     *)
(* joined by single blanks, "\n" is a trailing linefeed.                   *)
(***************************************************************************)
priorities ==
    {"Emergency", "Alert", "Critical", "Error", "Warning", "Notice", "Info", "Debug"}

LogPriorities == {"Error", "Warning", "Info"}

LogMessages ==
    { <<"Warning:", "Failed to", "connect to", "the agentx master agent", "\n">>,
      <<"AgentX subagent connected", "\n">>,
      <<"NET-SNMP version", "AgentX subagent connected">>,
      <<"AgentX master disconnected us", "reconnecting">>,
      <<"Error:", "duplicate table data attempted to be entered">> }

RECURSIVE rstripLF(_)
rstripLF(msg) ==
    IF msg # <<>> /\ msg[Len(msg)] = "\n"
    THEN rstripLF(SubSeq(msg, 1, Len(msg) - 1))
    ELSE msg

stripHeading(msg) ==
    IF msg # <<>> /\ msg[1] \in {"Warning:", "Error:"}
    THEN SubSeq(msg, 2, Len(msg))
    ELSE msg

\* msgtext: re.sub("^(Warning|Error): *", "", msg.rstrip("\n"))
msgtextOf(msg) == stripHeading(rstripLF(msg))

\* re.match("Failed to .* the agentx master agent.*", msgtext): the two blanks
\* around ".*" need at least one word between the two phrases
matchFailed(msgtext) ==
    /\ Len(msgtext) >= 3
    /\ msgtext[1] = "Failed to"
    /\ \E j \in 3..Len(msgtext) : msgtext[j] = "the agentx master agent"

\* re.match("AgentX subagent connected", msgtext): anchored at the start
matchConnected(msgtext) ==
    Len(msgtext) >= 1 /\ msgtext[1] = "AgentX subagent connected"

\* re.match("AgentX master disconnected us.*", msgtext)
matchDisconnected(msgtext) ==
    Len(msgtext) >= 1 /\ msgtext[1] = "AgentX master disconnected us"

\* the condition of the first branch of _py_log_handler, as Python groups it:
\* A or B and C  is  A or (B and C)
interceptFailure(msgprio, msgtext) ==
    \/ msgprio = "Warning"
    \/ (msgprio = "Error" /\ matchFailed(msgtext))

\* a variant: a "connected" message counts during the first attempt only
logStatus_firstAttemptOnly(s, msgprio, msgtext) ==
    IF interceptFailure(msgprio, msgtext)
    THEN (IF s = "FIRSTCONNECT" THEN "CONNECTFAILED" ELSE s)
    ELSE IF msgprio = "Info" /\ matchConnected(msgtext)
         THEN (IF s = "FIRSTCONNECT" THEN "CONNECTED" ELSE s)
    ELSE IF msgprio = "Info" /\ matchDisconnected(msgtext) THEN "RECONNECTING"
    ELSE s

\* the status _py_log_handler leaves behind
logStatus(s, msgprio, msgtext) ==
    IF interceptFailure(msgprio, msgtext)
    THEN (IF s = "FIRSTCONNECT" THEN "CONNECTFAILED" ELSE s)
    ELSE IF msgprio = "Info" /\ matchConnected(msgtext) THEN "CONNECTED"
    ELSE IF msgprio = "Info" /\ matchDisconnected(msgtext) THEN "RECONNECTING"
    ELSE s

\* a variant: the early return taken for every intercepted failure
logSuppressed_anyStatus(s, msgprio, msgtext) ==
    interceptFailure(msgprio, msgtext)

\* the early "return 0" of _py_log_handler: the message is not logged
logSuppressed(s, msgprio, msgtext) ==
    interceptFailure(msgprio, msgtext) /\ s = "FIRSTCONNECT"

\* how the model's history names a delivered event: by priority and pattern
eventClass(msgprio, msgtext) ==
    IF msgprio \in {"Warning", "Error"} /\ matchFailed(msgtext) THEN "failure"
    ELSE IF msgprio = "Info" /\ matchConnected(msgtext) THEN "connected"
    ELSE IF msgprio = "Info" /\ matchDisconnected(msgtext) THEN "disconnected"
    ELSE "other"

\* an event delivered while start() is inside init_snmp() is added to the attempt
noteEvent(cls) ==
    IF pc = "init_snmp"
    THEN [attempt EXCEPT !.failedFirst = @ \/ (/\ cls = "failure"
                                                  /\ status = "FIRSTCONNECT"
                                                  /\ ~attempt.connected),
                         !.connected = @ \/ cls = "connected"]
    ELSE attempt

(***************************************************************************)
(* OID strings.  An OID string is the sequence of its dot-separated        *)
(* components, a component the sequence of its characters: "1.3" is        *)
(* << <<"1">>, <<"3">> >>.  None, the empty sequence, is an oidstr that is    *)
(* false in "if oidstr:" (None or "").                                     *)
(***************************************************************************)
None == <<>>

digitChars == <<"0", "1", "2", "3", "4", "5", "6", "7", "8", "9">>

isDigit(c) == \E d \in 1..Len(digitChars) : digitChars[d] = c

digitValue(c) == (CHOOSE d \in 1..Len(digitChars) : digitChars[d] = c) - 1

\* int(x) succeeds: digits, with an optional sign (Python's int() takes "-1")
intParses(x) ==
    LET body == IF x # <<>> /\ x[1] = "-" THEN SubSeq(x, 2, Len(x)) ELSE x
    IN  body # <<>> /\ \A i \in 1..Len(body) : isDigit(body[i])

RECURSIVE decimalValue(_)
decimalValue(ds) ==
    IF ds = <<>> THEN 0
    ELSE 10 * decimalValue(SubSeq(ds, 1, Len(ds) - 1)) + digitValue(ds[Len(ds)])

intValue(x) ==
    IF x[1] = "-" THEN 0 - decimalValue(SubSeq(x, 2, Len(x))) ELSE decimalValue(x)

\* the names the loaded MIBs resolve, with the sub-identifier each stands for
mibSymbols == {"sysDescr", "SNMPv2-MIB::sysUpTime", "SNMPv2-MIB::snmpTrapOID"}
mibValue(x) == 1

\* libnsa.read_objid(): a component is a number or a name the MIBs resolve
read_objid_ok(oidstr) ==
    \A i \in 1..Len(oidstr) :
        \/ (intParses(oidstr[i]) /\ oidstr[i][1] # "-")
        \/ (Len(oidstr[i]) = 1 /\ oidstr[i][1] \in mibSymbols)

read_objid(oidstr) ==
    [i \in 1..Len(oidstr) |->
        IF intParses(oidstr[i]) THEN intValue(oidstr[i]) ELSE mibValue(oidstr[i])]

\* c_oid(n): an unsigned C integer, a number outside its range wraps around.
\* The width is the platform's (32 or 64 bits); the model takes 16 bits.
OidModulus == 65536
c_oid(n) == n % OidModulus

\* "if sys.version_info <= (3,): def long(obj): return int(obj)": the only
\* definition of long() the list comprehension of _prepareOID can see
longDefined(py3) == ~py3

\* _prepareOID: [out, oid].  Without MIB files the components go through
\* c_oid(long(x)); a ValueError becomes the invalid-OID error, the NameError of
\* an undefined long() is not caught.
_prepareOID(useMib, py3, oidstr) ==
    IF useMib
    THEN IF read_objid_ok(oidstr)
         THEN [out |-> "ok", oid |-> read_objid(oidstr)]
         ELSE [out |-> "InvalidOID", oid |-> <<>>]
    ELSE IF ~longDefined(py3)
         THEN [out |-> "NameError", oid |-> <<>>]
         ELSE IF \A i \in 1..Len(oidstr) : intParses(oidstr[i])
              THEN [out |-> "ok",
                    oid |-> [i \in 1..Len(oidstr) |-> c_oid(intValue(oidstr[i]))]]
              ELSE [out |-> "InvalidOID", oid |-> <<>>]

\* a variant: registration open again after a failed connection attempt
registrationOpen_afterFailure(s) == s \in {"REGISTRATION", "CONNECTFAILED"}

\* the check that opens _prepareRegistration
registrationOpen(s) == s = "REGISTRATION"

\* _prepareRegistration: the error it raises, or "ok"
_prepareRegistration(s, useMib, py3, oidstr) ==
    IF ~registrationOpen(s) THEN "RegistrationAfterStart"
    ELSE _prepareOID(useMib, py3, oidstr).out

\* a variant: an entry already stored under (context, oidstr) is kept
storeObject_keepFirst(registry, context, oidstr, obj) ==
    LET old == IF context \in DOMAIN registry THEN registry[context] ELSE <<>>
        new == [o \in (DOMAIN old) \cup {oidstr} |->
                   IF o \in DOMAIN old THEN old[o] ELSE obj]
    IN  [c \in (DOMAIN registry) \cup {context} |-> IF c = context THEN new ELSE registry[c]]

\* self._objs[context][oidstr] = obj on a defaultdict(dict)
storeObject(registry, context, oidstr, obj) ==
    LET old == IF context \in DOMAIN registry THEN registry[context] ELSE <<>>
        new == [o \in (DOMAIN old) \cup {oidstr} |-> IF o = oidstr THEN obj ELSE old[o]]
    IN  [c \in (DOMAIN registry) \cup {context} |-> IF c = context THEN new ELSE registry[c]]

(***************************************************************************)
(* Inputs of the registration calls.                                       *)
(***************************************************************************)
VarTypes == {"Integer32", "OctetString"}
Contexts == {"", "ctx"}
OidStrs == { << <<"1">>, <<"3">> >>, << <<"1">>, <<"x">> >> }

\* what net-snmp answers to a registration: all calls succeed, the register call
\* returns an error code, or (with a callback) netsnmp_inject_handler fails
EngineResults == {"ok", "register_error", "inject_error"}

none == [indexes |-> 0, oidstr |-> <<>>, context |-> "", counterobj |-> FALSE,
         columns |-> <<>>]

\* the column definitions handed to Table(): (colno, defobj) pairs, here as the
\* default_row net-snmp builds from them.  A value is written as its text.
coldefs ==
    (1 :> [type |-> "Integer32", value |-> "0"])
        @@ (2 :> [type |-> "OctetString", value |-> ""])

Result(op, arg, out) == [op |-> op, arg |-> arg, out |-> out]

\* a step that is no log callback passes nothing to the log sinks
noLog == handlerOut' = <<>> /\ stderrOut' = <<>>

step == tick' = 1 - tick

(***************************************************************************)
(* _cls_wrapper: agent.Integer32(...), agent.OctetString(...), ...         *)
(***************************************************************************)
_cls_wrapper_out(s, useMib, py3, oidstr, engine) ==
    IF oidstr = None THEN "ok"
    ELSE IF _prepareRegistration(s, useMib, py3, oidstr) # "ok"
         THEN _prepareRegistration(s, useMib, py3, oidstr)
    ELSE IF engine = "register_error" THEN "RegisterError"
    ELSE IF engine = "inject_error" THEN "InjectError"
    ELSE "ok"

_cls_wrapper(vartype, oidstr, context, engine) ==
    LET out == _cls_wrapper_out(status, UseMIBFiles, Python3, oidstr, engine)
    IN  /\ pc = "idle"
        /\ objs' = IF oidstr # None /\ out = "ok"
                   THEN storeObject(objs, context, oidstr, [type |-> vartype])
                   ELSE objs
        /\ ret' = Result(vartype, [oidstr |-> oidstr, context |-> context], out)
        /\ step /\ noLog
        /\ UNCHANGED <<status, pc, raised, attempt>>
        /\ UNCHANGED configVars
        /\ UNCHANGED tableVars

(***************************************************************************)
(* Table.__init__                                                          *)
(***************************************************************************)
Table_init_out(s, useMib, py3, oidstr, coldefsOk, engine) ==
    IF ~coldefsOk THEN "ColumnError"
    ELSE IF _prepareRegistration(s, useMib, py3, oidstr) # "ok"
         THEN _prepareRegistration(s, useMib, py3, oidstr)
    ELSE IF engine = "inject_error" THEN "InjectError"
    ELSE IF engine = "register_error" THEN "RegisterError"
    ELSE "ok"

Table_init(oidstr, indexes, coldefsOk, counterobj, context, engine) ==
    LET out == Table_init_out(status, UseMIBFiles, Python3, oidstr, coldefsOk, engine)
    IN  /\ pc = "idle"
        /\ objs' = IF out = "ok"
                   THEN storeObject(objs, context, oidstr, [type |-> "Table"])
                   ELSE objs
        /\ IF out = "ok"
           THEN /\ table' = [indexes |-> indexes, oidstr |-> oidstr,
                             context |-> context, counterobj |-> counterobj,
                             columns |-> coldefs]
                /\ rows' = <<>>
                /\ adds' = 0
                /\ sets' = 0
                /\ counter' = IF counterobj THEN 0 ELSE counter
           ELSE UNCHANGED tableVars
        /\ ret' = Result("Table", [oidstr |-> oidstr, context |-> context], out)
        /\ step /\ noLog
        /\ UNCHANGED <<status, pc, raised, attempt>>
        /\ UNCHANGED configVars

(***************************************************************************)
(* start(): the call up to libnsa.init_snmp(), and its return              *)
(***************************************************************************)
\* a variant: only CONNECTED makes start() a no-op
startConnects_unlessConnected(s) == s # "CONNECTED"

\* the condition under which start() connects
startConnects(s) == s # "CONNECTED" /\ s # "RECONNECTING"

\* a variant: start() also raises when it finds RECONNECTING
startRaises_alsoReconnecting(s) == s \in {"CONNECTFAILED", "RECONNECTING"}

\* the check after init_snmp()
startRaises(s) == s = "CONNECTFAILED"

start_call ==
    /\ pc = "idle"
    /\ raised < MaxRaised
    /\ IF startConnects(status)
       THEN /\ status' = "FIRSTCONNECT"
            /\ pc' = "init_snmp"
            /\ attempt' = [from |-> status, failedFirst |-> FALSE, connected |-> FALSE,
                            out |-> "running"]
            /\ ret' = Result("start", status, "init_snmp")
       ELSE /\ UNCHANGED <<status, pc, attempt>>
            /\ ret' = Result("start", status, "ok")
    /\ step /\ noLog
    /\ UNCHANGED <<objs, raised>>
    /\ UNCHANGED configVars
    /\ UNCHANGED tableVars

start_return ==
    /\ pc = "init_snmp"
    /\ pc' = "idle"
    /\ IF startRaises(status)
       THEN /\ raised' = raised + 1
            /\ attempt' = [attempt EXCEPT !.out = "ConnectionFailed"]
            /\ ret' = Result("start", attempt.from, "ConnectionFailed")
       ELSE /\ raised' = raised
            /\ attempt' = [attempt EXCEPT !.out = "ok"]
            /\ ret' = Result("start", attempt.from, "ok")
    /\ step /\ noLog
    /\ UNCHANGED <<status, objs>>
    /\ UNCHANGED configVars
    /\ UNCHANGED tableVars

(***************************************************************************)
(* The two callbacks net-snmp calls, at any time                           *)
(***************************************************************************)
_py_log_handler(msgprio, msg) ==
    LET msgtext == msgtextOf(msg)
        logged  == IF logSuppressed(status, msgprio, msgtext)
                   THEN <<>> ELSE << <<msgprio, msgtext>> >>
    IN  /\ status' = logStatus(status, msgprio, msgtext)
        /\ handlerOut' = IF LogHandler THEN logged ELSE <<>>
        /\ stderrOut' = IF LogHandler THEN <<>> ELSE logged
        /\ attempt' = noteEvent(eventClass(msgprio, msgtext))
        /\ ret' = Result("log", [msgprio |-> msgprio, msg |-> msg], "0")
        /\ step
        /\ UNCHANGED <<objs, pc, raised>>
        /\ UNCHANGED configVars
        /\ UNCHANGED tableVars

SNMPD_CALLBACK_INDEX_STOP == "SNMPD_CALLBACK_INDEX_STOP"

\* the callback is registered for SNMPD_CALLBACK_INDEX_STOP alone
_py_index_stop_callback(minorID) ==
    /\ status' = IF minorID = SNMPD_CALLBACK_INDEX_STOP THEN "RECONNECTING" ELSE status
    /\ attempt' = noteEvent("index_stop")
    /\ ret' = Result("index_stop", minorID, "0")
    /\ step /\ noLog
    /\ UNCHANGED <<objs, pc, raised>>
    /\ UNCHANGED configVars
    /\ UNCHANGED tableVars

(***************************************************************************)
(* check_and_process() and shutdown(): calls into net-snmp that touch no   *)
(* attribute of the agent                                                  *)
(***************************************************************************)
check_and_process ==
    /\ pc = "idle"
    /\ ret' = Result("check_and_process", "block", "0")
    /\ step /\ noLog
    /\ UNCHANGED <<status, objs, pc, raised, attempt>>
    /\ UNCHANGED configVars
    /\ UNCHANGED tableVars

\* a variant: shutdown() opening the agent for registrations again
shutdown_reopening ==
    /\ pc = "idle"
    /\ status' = "REGISTRATION"
    /\ ret' = Result("shutdown", "", "None")
    /\ step /\ noLog
    /\ UNCHANGED <<objs, pc, raised, attempt>>
    /\ UNCHANGED configVars
    /\ UNCHANGED tableVars

shutdown ==
    /\ pc = "idle"
    /\ ret' = Result("shutdown", "", "None")
    /\ step /\ noLog
    /\ UNCHANGED <<status, objs, pc, raised, attempt>>
    /\ UNCHANGED configVars
    /\ UNCHANGED tableVars

(***************************************************************************)
(* The agent: construction, registration, start() and the callbacks        *)
(***************************************************************************)
Init ==
    /\ status = "REGISTRATION"
    /\ LogHandler \in BOOLEAN
    /\ UseMIBFiles \in BOOLEAN
    /\ Python3 \in BOOLEAN
    /\ objs = <<>>
    /\ pc = "idle"
    /\ raised = 0
    /\ attempt = [from |-> "none", failedFirst |-> FALSE, connected |-> FALSE, out |-> "none"]
    /\ ret = Result("init", "", "ok")
    /\ tick = 0
    /\ handlerOut = <<>>
    /\ stderrOut = <<>>
    /\ table = none
    /\ rows = <<>>
    /\ counter = MaxCounterInit
    /\ adds = 0
    /\ sets = 0

Next ==
    \/ \E t \in VarTypes, o \in OidStrs \cup {None}, e \in EngineResults :
          _cls_wrapper(t, o, "", e)
    \/ \E o \in OidStrs, c \in BOOLEAN, e \in EngineResults :
          Table_init(o, 1, c, TRUE, "", e)
    \/ start_call
    \/ start_return
    \/ \E p \in LogPriorities, m \in LogMessages : _py_log_handler(p, m)
    \/ _py_index_stop_callback(SNMPD_CALLBACK_INDEX_STOP)
    \/ check_and_process
    \/ shutdown

Spec == Init /\ [][Next]_vars

(***************************************************************************)
(* The table engine.  Index columns are integer columns; an index tuple is *)
(* a list of integers, one per index column.                               *)
(***************************************************************************)
IndexValues == 0..MaxIdx

IndexTuples(n) == [1..n -> IndexValues]

\* Python values the row lookup compares: an int, a str (its characters), None
PyInt(n) == [t |-> "int", v |-> <<n>>]
PyStr(cs) == [t |-> "str", v |-> cs]
PyNone == [t |-> "None", v |-> <<>>]

\* str(n) for n >= 0, also the decimal rendering net-snmp gives a sub-identifier
RECURSIVE decimalString(_)
decimalString(n) ==
    IF n < 10 THEN <<digitChars[n + 1]>>
    ELSE decimalString(n \div 10) \o <<digitChars[(n % 10) + 1]>>

\* '.'.join(parts)
RECURSIVE joinDots(_)
joinDots(parts) ==
    IF parts = <<>> THEN <<>>
    ELSE IF Len(parts) = 1 THEN parts[1]
    ELSE parts[1] \o <<".">> \o joinDots(Tail(parts))

\* the index OID net-snmp builds from a row's integer indexes
indexOidOf(idxobjs) == idxobjs

\* libnsa.snprint_objid() of rootoid.1.2.index_oid: the name the MIB gives the
\* column, then the index sub-identifiers
snprint_objid(index_oid) ==
    <<"entryColumn">> \o <<".">>
        \o joinDots([i \in 1..Len(index_oid) |-> decimalString(index_oid[i])])

\* text.split(".", 1)[1]
afterFirstDot(text) ==
    LET k == CHOOSE i \in 1..Len(text) :
                 text[i] = "." /\ \A j \in 1..(i - 1) : text[j] # "."
    IN  SubSeq(text, k + 1, Len(text))

\* text.replace('"', '')
RECURSIVE dropQuotes(_)
dropQuotes(text) ==
    IF text = <<>> THEN <<>>
    ELSE IF text[1] = "\"" THEN dropQuotes(Tail(text))
    ELSE <<text[1]>> \o dropQuotes(Tail(text))

\* Table._getIndices for a row that exists: int(indices) when it parses
_getIndices(row) ==
    LET indices == afterFirstDot(snprint_objid(row.index_oid))
    IN  IF intParses(indices) THEN PyInt(intValue(indices))
        ELSE PyStr(dropQuotes(indices))

\* matchStr of Table._getRow
matchStr(indices) ==
    PyStr(joinDots([i \in 1..Len(indices) |-> decimalString(indices[i])]))

\* Table._getRow: the position of the first row whose indices equal matchStr,
\* 0 (a NULL row) when the scan runs off the end
RECURSIVE scanRows(_, _, _)
scanRows(rs, k, m) ==
    IF k > Len(rs) THEN 0
    ELSE IF m = _getIndices(rs[k]) THEN k
    ELSE scanRows(rs, k + 1, m)

_getRow(rs, indices) == scanRows(rs, 1, matchStr(indices))

\* snmp_oid_compare(a, b) < 0
RECURSIVE oidLess(_, _)
oidLess(a, b) ==
    IF a = <<>> THEN b # <<>>
    ELSE IF b = <<>> THEN FALSE
    ELSE IF a[1] # b[1] THEN a[1] < b[1]
    ELSE oidLess(Tail(a), Tail(b))

\* netsnmp_table_dataset_add_row: rows are kept in index OID order, a row whose
\* index OID is present already is refused (the call returns nothing)
RECURSIVE insertRow(_, _)
insertRow(rs, row) ==
    IF rs = <<>> THEN <<row>>
    ELSE IF rs[1].index_oid = row.index_oid THEN rs
    ELSE IF oidLess(row.index_oid, rs[1].index_oid) THEN <<row>> \o rs
    ELSE <<rs[1]>> \o insertRow(Tail(rs), row)

\* netsnmp_table_dataset_remove_and_delete_row
removeRow(rs, k) == SubSeq(rs, 1, k - 1) \o SubSeq(rs, k + 1, Len(rs))

tableExists == table.indexes > 0

\* Table.addRow -> _getOrAddRow(idxobjs)
addRow(idxobjs, varlistOk) ==
    /\ pc = "idle"
    /\ tableExists
    /\ adds < MaxAdds
    /\ adds' = adds + 1
    /\ IF ~varlistOk
       THEN /\ UNCHANGED <<rows, counter>>
            /\ ret' = Result("addRow", idxobjs, "VarlistError")
       ELSE /\ rows' = insertRow(rows, [index_oid |-> indexOidOf(idxobjs),
                                        data |-> table.columns])
            /\ counter' = IF table.counterobj THEN counter + 1 ELSE counter
            /\ ret' = Result("addRow", idxobjs, "row")
    /\ step /\ noLog
    /\ UNCHANGED <<status, objs, pc, raised, attempt, table, sets>>
    /\ UNCHANGED configVars

\* Table.getRow -> _getOrAddRow(idxobjs, _getExistingRow=True)
getRow(idxobjs) ==
    LET k == _getRow(rows, idxobjs)
    IN  /\ pc = "idle"
        /\ tableExists
        /\ ret' = IF k = 0
                  THEN Result("getRow", idxobjs, "RowNotFound")
                  ELSE Result("getRow", idxobjs, "row")
        /\ step /\ noLog
        /\ UNCHANGED <<status, objs, pc, raised, attempt>>
        /\ UNCHANGED configVars
        /\ UNCHANGED tableVars

\* Table.deleteRow
deleteRow(indices) ==
    LET k == _getRow(rows, indices)
    IN  /\ pc = "idle"
        /\ tableExists
        /\ IF k # 0
           THEN /\ rows' = removeRow(rows, k)
                /\ counter' = IF table.counterobj THEN counter - 1 ELSE counter
           ELSE UNCHANGED <<rows, counter>>
        /\ ret' = Result("deleteRow", indices, "ok")
        /\ step /\ noLog
        /\ UNCHANGED <<status, objs, pc, raised, attempt, table, adds, sets>>
        /\ UNCHANGED configVars

\* a variant: the rows removed, the counter object left as it is
clear_rowsOnly ==
    /\ pc = "idle"
    /\ tableExists
    /\ rows' = <<>>
    /\ ret' = Result("clear", <<>>, "ok")
    /\ step /\ noLog
    /\ UNCHANGED <<status, objs, pc, raised, attempt, table, counter, adds, sets>>
    /\ UNCHANGED configVars

\* Table.clear
clear ==
    /\ pc = "idle"
    /\ tableExists
    /\ rows' = <<>>
    /\ counter' = IF table.counterobj THEN 0 ELSE counter
    /\ ret' = Result("clear", <<>>, "ok")
    /\ step /\ noLog
    /\ UNCHANGED <<status, objs, pc, raised, attempt, table, adds, sets>>
    /\ UNCHANGED configVars

(***************************************************************************)
(* Row cells.  A TableRow is the handle addRow() returned for a row the     *)
(* table stores: setRowCell(k, ...) is a call on the handle of the k-th    *)
(* stored row.                                                             *)
(***************************************************************************)
\* the objects a caller hands to setRowCell / setRowColumn
SnmpObjs ==
    { [type |-> "Integer32", value |-> "7"], [type |-> "OctetString", value |-> "a"] }

\* the column numbers a caller passes: the declared ones and one that is not
ColumnNumbers == (DOMAIN coldefs) \cup {3}

\* libnsX.netsnmp_set_row_column(row, column, type, value, size), as net-snmp
\* does it: a column the row holds no data for is created with the type given;
\* a value of another type than the column's is refused, the data untouched
netsnmp_set_row_column(data, column, snmpobj) ==
    IF column \notin DOMAIN data
    THEN [result |-> "SNMPERR_SUCCESS",
          data |-> [c \in (DOMAIN data) \cup {column} |->
                       IF c = column THEN snmpobj ELSE data[c]]]
    ELSE IF data[column].type # snmpobj.type
         THEN [result |-> "SNMPERR_GENERIC", data |-> data]
         ELSE [result |-> "SNMPERR_SUCCESS", data |-> [data EXCEPT ![column] = snmpobj]]

\* a variant: the result code of netsnmp_set_row_column not looked at
checkResult_ignored(result) == "ok"

\* "if result != SNMPERR_SUCCESS: raise netsnmpAgentException(...)"
checkResult(result) ==
    IF result # "SNMPERR_SUCCESS" THEN "SetRowColumnError" ELSE "ok"

\* TableRow.setRowCell(column, snmpobj) on the handle of the k-th stored row
setRowCell(k, column, snmpobj) ==
    LET r == netsnmp_set_row_column(rows[k].data, column, snmpobj)
    IN  /\ pc = "idle"
        /\ tableExists
        /\ sets < MaxSets
        /\ sets' = sets + 1
        /\ rows' = [rows EXCEPT ![k].data = r.data]
        /\ ret' = Result("setRowCell",
                         [row |-> k, column |-> column, snmpobj |-> snmpobj],
                         checkResult(r.result))
        /\ step /\ noLog
        /\ UNCHANGED <<status, objs, pc, raised, attempt, table, counter, adds>>
        /\ UNCHANGED configVars

\* Table.setRowColumn(indices, colIdx, snmpobj)
setRowColumn(indices, colIdx, snmpobj) ==
    LET k == _getRow(rows, indices)
        r == netsnmp_set_row_column(rows[k].data, colIdx, snmpobj)
    IN  /\ pc = "idle"
        /\ tableExists
        /\ sets < MaxSets
        /\ sets' = sets + 1
        /\ IF k = 0
           THEN /\ rows' = rows
                /\ ret' = Result("setRowColumn",
                                 [row |-> 0, column |-> colIdx, snmpobj |-> snmpobj,
                                  indices |-> indices],
                                 "RowNotFound")
           ELSE /\ rows' = [rows EXCEPT ![k].data = r.data]
                /\ ret' = Result("setRowColumn",
                                 [row |-> k, column |-> colIdx, snmpobj |-> snmpobj,
                                  indices |-> indices],
                                 checkResult(r.result))
        /\ step /\ noLog
        /\ UNCHANGED <<status, objs, pc, raised, attempt, table, counter, adds>>
        /\ UNCHANGED configVars

(***************************************************************************)
(* Table.value(): the dictionary it builds.  An entry carries its sort      *)
(* ("schema": column -> [type, value], "row": column -> value).            *)
(***************************************************************************)
\* the names value() gives the ASN types
asntypes(type) == IF type = "Integer32" THEN "Integer" ELSE type

\* retdict[k] = e
dictSet(d, k, e) == [x \in (DOMAIN d) \cup {k} |-> IF x = k THEN e ELSE d[x]]

\* retdict[0]: the defined columns, their types and their defaults
schemaEntry(columns) ==
    [sort |-> "schema",
     cols |-> [c \in DOMAIN columns |->
                  [type |-> asntypes(columns[c].type), value |-> columns[c].value]]]

\* retdict[indices]: the data stored in the row, by column
rowEntry(row) ==
    [sort |-> "row", cols |-> [c \in DOMAIN row.data |-> row.data[c].value]]

\* the loop over the rows, first_row to the last
RECURSIVE valueRows(_, _)
valueRows(retdict, rs) ==
    IF rs = <<>> THEN retdict
    ELSE valueRows(dictSet(retdict, _getIndices(rs[1]), rowEntry(rs[1])), Tail(rs))

value ==
    /\ pc = "idle"
    /\ tableExists
    /\ ret' = Result("value", <<>>,
                     valueRows(dictSet(<<>>, PyInt(0), schemaEntry(table.columns)), rows))
    /\ step /\ noLog
    /\ UNCHANGED <<status, objs, pc, raised, attempt>>
    /\ UNCHANGED configVars
    /\ UNCHANGED tableVars

(***************************************************************************)
(* The table engine on its own: an agent in REGISTRATION creates tables    *)
(* with one or two index columns, with or without a counter object, and    *)
(* works on their rows.                                                    *)
(***************************************************************************)
TableOid == << <<"1">>, <<"3">> >>

TableInit ==
    /\ status = "REGISTRATION"
    /\ LogHandler = FALSE
    /\ UseMIBFiles \in BOOLEAN
    /\ Python3 \in BOOLEAN
    /\ objs = <<>>
    /\ pc = "idle"
    /\ raised = 0
    /\ attempt = [from |-> "none", failedFirst |-> FALSE, connected |-> FALSE, out |-> "none"]
    /\ ret = Result("init", "", "ok")
    /\ tick = 0
    /\ handlerOut = <<>>
    /\ stderrOut = <<>>
    /\ table = none
    /\ rows = <<>>
    /\ counter \in 0..MaxCounterInit
    /\ adds = 0
    /\ sets = 0

TableNext ==
    \/ \E n \in 1..2, c \in BOOLEAN, e \in {"ok", "register_error"} :
          Table_init(TableOid, n, TRUE, c, "", e)
    \/ \E i \in IndexTuples(table.indexes), ok \in BOOLEAN : addRow(i, ok)
    \/ \E i \in IndexTuples(table.indexes) : getRow(i)
    \/ \E i \in IndexTuples(table.indexes) : deleteRow(i)
    \/ clear

TableSpec == TableInit /\ [][TableNext]_vars

(***************************************************************************)
(* Rows and their cells: tables with one or two index columns, rows added, *)
(* cells set through the row handle and through the table, value() and     *)
(* clear().                                                                *)
(***************************************************************************)
\* the index tuples of the rows worked on: (0), (1) or (0, 0), (1, 1)
CellIndexTuples(n) == { [j \in 1..n |-> v] : v \in 0..1 }

CellInit ==
    /\ status = "REGISTRATION"
    /\ LogHandler = FALSE
    /\ UseMIBFiles = TRUE
    /\ Python3 = TRUE
    /\ objs = <<>>
    /\ pc = "idle"
    /\ raised = 0
    /\ attempt = [from |-> "none", failedFirst |-> FALSE, connected |-> FALSE, out |-> "none"]
    /\ ret = Result("init", "", "ok")
    /\ tick = 0
    /\ handlerOut = <<>>
    /\ stderrOut = <<>>
    /\ table = none
    /\ rows = <<>>
    /\ counter = 0
    /\ adds = 0
    /\ sets = 0

CellNext ==
    \/ \E n \in 1..2, c \in BOOLEAN : Table_init(TableOid, n, TRUE, c, "", "ok")
    \/ \E i \in CellIndexTuples(table.indexes) : addRow(i, TRUE)
    \/ clear
    \/ \E k \in 1..Len(rows), c \in ColumnNumbers, o \in SnmpObjs : setRowCell(k, c, o)
    \/ \E i \in CellIndexTuples(table.indexes), c \in ColumnNumbers, o \in SnmpObjs :
          setRowColumn(i, c, o)
    \/ value

CellSpec == CellInit /\ [][CellNext]_vars

(***************************************************************************)
(* The object registry: scalars and tables registered under two contexts,  *)
(* getRegistered() and getContexts().                                      *)
(***************************************************************************)
\* self._objs[context] read on a defaultdict(dict): a missing key is created,
\* with an empty dictionary
readContext(registry, context) ==
    IF context \in DOMAIN registry THEN registry
    ELSE [c \in (DOMAIN registry) \cup {context} |->
             IF c = context THEN <<>> ELSE registry[c]]

\* getRegistered(context): oidstr -> the object's type name (its value left out)
getRegistered(context) ==
    /\ pc = "idle"
    /\ objs' = readContext(objs, context)
    /\ ret' = Result("getRegistered", context,
                     [o \in DOMAIN objs'[context] |-> [type |-> objs'[context][o].type]])
    /\ step /\ noLog
    /\ UNCHANGED <<status, pc, raised, attempt>>
    /\ UNCHANGED configVars
    /\ UNCHANGED tableVars

\* getContexts(): self._objs.keys()
getContexts ==
    /\ pc = "idle"
    /\ ret' = Result("getContexts", <<>>, DOMAIN objs)
    /\ step /\ noLog
    /\ UNCHANGED <<status, objs, pc, raised, attempt>>
    /\ UNCHANGED configVars
    /\ UNCHANGED tableVars

RegistryOids == OidStrs \cup { << <<"1">>, <<"4">> >> }

RegistryInit ==
    /\ status = "REGISTRATION"
    /\ LogHandler = FALSE
    /\ UseMIBFiles = TRUE
    /\ Python3 = TRUE
    /\ objs = <<>>
    /\ pc = "idle"
    /\ raised = 0
    /\ attempt = [from |-> "none", failedFirst |-> FALSE, connected |-> FALSE, out |-> "none"]
    /\ ret = Result("init", "", "ok")
    /\ tick = 0
    /\ handlerOut = <<>>
    /\ stderrOut = <<>>
    /\ table = none
    /\ rows = <<>>
    /\ counter = 0
    /\ adds = 0
    /\ sets = 0

RegistryNext ==
    \/ \E o \in RegistryOids, c \in Contexts, e \in EngineResults :
          _cls_wrapper("Integer32", o, c, e)
    \/ \E o \in RegistryOids, c \in Contexts, e \in EngineResults :
          Table_init(o, 1, TRUE, FALSE, c, e)
    \/ \E c \in Contexts : getRegistered(c)
    \/ getContexts

RegistrySpec == RegistryInit /\ [][RegistryNext]_vars

(***************************************************************************)
(* The OID codec: _prepareOID and getRawOid on OID strings of up to        *)
(* MaxOidLen components, with and without MIB files, under both            *)
(* interpreters.                                                           *)
(***************************************************************************)
\* the components tried: numerals, one with a leading zero, a negative number,
\* a name no MIB resolves, the empty component of "1..3"
OidComponents ==
    { <<"0">>, <<"1">>, <<"1", "2">>, <<"0", "1">>, <<"-", "1">>, <<"x">>, <<>> }

OidInputs == UNION { [1..n -> OidComponents] : n \in 1..MaxOidLen }

\* oid2Str(oid, oid_len) of netsnmpapi: the sub-identifiers in decimal, joined
\* by dots
oid2Str(oid, oid_len) == joinDots([i \in 1..oid_len |-> decimalString(oid[i])])

\* a call of _prepareOID(oidstr)
_prepareOID_call(oidstr) ==
    /\ pc = "idle"
    /\ ret' = Result("_prepareOID", oidstr, _prepareOID(UseMIBFiles, Python3, oidstr))
    /\ step /\ noLog
    /\ UNCHANGED <<status, objs, pc, raised, attempt>>
    /\ UNCHANGED configVars
    /\ UNCHANGED tableVars

\* getRawOid(mibOid)
getRawOid(mibOid) ==
    LET r == _prepareOID(UseMIBFiles, Python3, mibOid)
    IN  /\ pc = "idle"
        /\ ret' = Result("getRawOid", mibOid,
                         IF r.out = "ok"
                         THEN [out |-> "ok", rawOid |-> oid2Str(r.oid, Len(r.oid))]
                         ELSE [out |-> r.out, rawOid |-> <<>>])
        /\ step /\ noLog
        /\ UNCHANGED <<status, objs, pc, raised, attempt>>
        /\ UNCHANGED configVars
        /\ UNCHANGED tableVars

OidInit ==
    /\ status = "REGISTRATION"
    /\ LogHandler = FALSE
    /\ UseMIBFiles \in BOOLEAN
    /\ Python3 \in BOOLEAN
    /\ objs = <<>>
    /\ pc = "idle"
    /\ raised = 0
    /\ attempt = [from |-> "none", failedFirst |-> FALSE, connected |-> FALSE, out |-> "none"]
    /\ ret = Result("init", "", "ok")
    /\ tick = 0
    /\ handlerOut = <<>>
    /\ stderrOut = <<>>
    /\ table = none
    /\ rows = <<>>
    /\ counter = 0
    /\ adds = 0
    /\ sets = 0

OidNext ==
    \/ \E o \in OidInputs : _prepareOID_call(o)
    \/ \E o \in OidInputs : getRawOid(o)

OidSpec == OidInit /\ [][OidNext]_vars

(***************************************************************************)
(* Traps: snmp_pdu._humanToASNtype, snmp_pdu.add and send_trap.  A type    *)
(* name is the sequence of its characters; NoType is a varType of None.    *)
(***************************************************************************)
lowerChars ==
    <<"a", "b", "c", "d", "e", "f", "g", "h", "i", "j", "k", "l", "m",
      "n", "o", "p", "q", "r", "s", "t", "u", "v", "w", "x", "y", "z">>

upperChars ==
    <<"A", "B", "C", "D", "E", "F", "G", "H", "I", "J", "K", "L", "M",
      "N", "O", "P", "Q", "R", "S", "T", "U", "V", "W", "X", "Y", "Z">>

\* str.lower() and str.upper(), character by character
lowerChar(c) ==
    IF \E i \in 1..Len(upperChars) : upperChars[i] = c
    THEN lowerChars[CHOOSE i \in 1..Len(upperChars) : upperChars[i] = c]
    ELSE c

upperChar(c) ==
    IF \E i \in 1..Len(lowerChars) : lowerChars[i] = c
    THEN upperChars[CHOOSE i \in 1..Len(lowerChars) : lowerChars[i] = c]
    ELSE c

lower(str) == [i \in 1..Len(str) |-> lowerChar(str[i])]
upper(str) == [i \in 1..Len(str) |-> upperChar(str[i])]

\* str[0:n]
prefix(str, n) == SubSeq(str, 1, IF n < Len(str) THEN n ELSE Len(str))

NoType == <<"None">>

\* snmp_pdu._humanToASNtype(varType): the first character of what the chain
\* of comparisons leaves in varType
_humanToASNtype(varType) ==
    LET given    == IF varType = NoType THEN <<"=">> ELSE varType
        varTypeL == lower(given)
        chosen   ==
            IF Len(given) > 1
            THEN IF prefix(varTypeL, 3) = <<"h", "e", "x">> THEN <<"x">>
                 ELSE IF prefix(varTypeL, 3) \in {<<"o", "b", "j">>, <<"o", "i", "d">>} THEN <<"o">>
                 ELSE IF prefix(varTypeL, 4) = <<"u", "i", "n", "t", "e", "g", "e", "r">> THEN <<"3">>
                 ELSE IF varTypeL \in {<<"g", "a", "u", "g", "e">>, <<"u", "n", "s", "i", "g", "n", "e", "d", "3", "2">>} THEN <<"u">>
                 ELSE IF prefix(varTypeL, 2) = <<"i", "p">> THEN <<"a">>
                 ELSE IF prefix(varTypeL, 3) = <<"d", "e", "c">> THEN <<"d">>
                 ELSE IF varTypeL = <<"c", "o", "u", "n", "t", "e", "r", "6", "4">> THEN <<"C">>
                 ELSE IF varTypeL \in {<<"i", "n", "t", "e", "g", "e", "r">>, <<"i", "n", "t", "e", "g", "e", "r", "3", "2">>} THEN <<"i">>
                 ELSE IF given[1] = "B" THEN <<"b">>
                 ELSE given
            ELSE given
    IN  chosen[1]

\* the type names the docstring of add() lists with a character of their own,
\* in lower case, and a varType of None
TypeNames ==
    { <<"i", "n", "t", "e", "g", "e", "r">>,
      <<"i", "n", "t", "e", "g", "e", "r", "3", "2">>,
      <<"u", "n", "s", "i", "g", "n", "e", "d", "3", "2">>,
      <<"g", "a", "u", "g", "e">>,
      <<"u", "i", "n", "t", "e", "g", "e", "r">>,
      <<"c", "o", "u", "n", "t", "e", "r", "3", "2">>,
      <<"c", "o", "u", "n", "t", "e", "r", "6", "4">>,
      <<"i", "p", "a", "d", "d", "r", "e", "s", "s">>,
      <<"o", "b", "j", "i", "d">>,
      <<"o", "i", "d">> }

\* a name with its first letter in upper case
capitalize(str) == [i \in 1..Len(str) |-> IF i = 1 THEN upperChar(str[i]) ELSE str[i]]

\* what a caller passes as varType: each name in three letter cases, or None
VarTypeInputs ==
    { n : n \in TypeNames } \cup { upper(n) : n \in TypeNames }
        \cup { capitalize(n) : n \in TypeNames } \cup {NoType}

\* a call of _humanToASNtype(varType)
_humanToASNtype_call(varType) ==
    /\ pc = "idle"
    /\ ret' = Result("_humanToASNtype", varType, _humanToASNtype(varType))
    /\ step /\ noLog
    /\ UNCHANGED <<status, objs, pc, raised, attempt>>
    /\ UNCHANGED configVars
    /\ UNCHANGED tableVars

\* a variant: after a failed call the loop tries again with the type it has
afterFailure_keepType(varType) == [again |-> TRUE, varType |-> varType]

\* "if ret != 0:" of the loop in add(): a type other than '=' is replaced by
\* '=' and the loop goes round again, with '=' the loop is left
afterFailure(varType) ==
    IF varType # "=" THEN [again |-> TRUE, varType |-> "="]
    ELSE [again |-> FALSE, varType |-> varType]

\* "while ret:" of add() against the answers libnsX.snmp_add_var will give, in
\* order: [done, ret, calls], calls being the type characters passed.  done is
\* FALSE when the loop is still going round after the last answer.
RECURSIVE addLoop(_, _, _, _)
addLoop(varType, answers, calls, code) ==
    IF code = 0 THEN [done |-> TRUE, ret |-> code, calls |-> calls]
    ELSE IF answers = <<>> THEN [done |-> FALSE, ret |-> code, calls |-> calls]
    ELSE LET answer == Head(answers)
             made   == Append(calls, varType)
         IN  IF answer # 0
             THEN IF afterFailure(varType).again
                  THEN addLoop(afterFailure(varType).varType, Tail(answers), made, answer)
                  ELSE [done |-> TRUE, ret |-> answer, calls |-> made]
             ELSE addLoop(varType, Tail(answers), made, answer)

\* snmp_pdu.add(varOID, varData, varType): [raised, done, ret, calls]; an
\* error of _prepareOID leaves add() before the loop
pdu_add(useMib, py3, varOID, varData, varType, answers) ==
    LET t == _humanToASNtype(varType)
        o == _prepareOID(useMib, py3, varOID)
        l == addLoop(t, answers, <<>>, 255)
    IN  IF o.out # "ok"
        THEN [raised |-> o.out, done |-> TRUE, ret |-> 255, calls |-> <<>>]
        ELSE [raised |-> "ok", done |-> l.done, ret |-> l.ret, calls |-> l.calls]

\* the answers of snmp_add_var: 0, or an error code
AddResults == {0, 1}

MaxEngineCalls == 3

AddAnswers == [1..MaxEngineCalls -> AddResults]

\* the varType arguments add() is called with: none, a type character, the
\* autodetect character, a type name
AddTypes == {NoType, <<"t">>, <<"=">>, upper(<<"i", "n", "t", "e", "g", "e", "r">>)}

\* a call of snmp_pdu.add(varOID, varData, varType)
pdu_add_call(varOID, varType, answers) ==
    /\ pc = "idle"
    /\ ret' = Result("add", [varOID |-> varOID, varType |-> varType, answers |-> answers],
                     pdu_add(UseMIBFiles, Python3, varOID, <<"1">>, varType, answers))
    /\ step /\ noLog
    /\ UNCHANGED <<status, objs, pc, raised, attempt>>
    /\ UNCHANGED configVars
    /\ UNCHANGED tableVars

AddInit ==
    /\ status = "REGISTRATION"
    /\ LogHandler = FALSE
    /\ UseMIBFiles \in BOOLEAN
    /\ Python3 \in BOOLEAN
    /\ objs = <<>>
    /\ pc = "idle"
    /\ raised = 0
    /\ attempt = [from |-> "none", failedFirst |-> FALSE, connected |-> FALSE, out |-> "none"]
    /\ ret = Result("init", "", "ok")
    /\ tick = 0
    /\ handlerOut = <<>>
    /\ stderrOut = <<>>
    /\ table = none
    /\ rows = <<>>
    /\ counter = 0
    /\ adds = 0
    /\ sets = 0

AddNext ==
    \/ \E t \in VarTypeInputs : _humanToASNtype_call(t)
    \/ \E o \in OidStrs, t \in AddTypes, a \in AddAnswers : pdu_add_call(o, t, a)

AddSpec == AddInit /\ [][AddNext]_vars

\* the OIDs send_trap() itself adds to the PDU
sysUpTimeOid == << <<"SNMPv2-MIB::sysUpTime">>, <<"0">> >>
snmpTrapOid == << <<"SNMPv2-MIB::snmpTrapOID">>, <<"0">> >>

MaxTraps == 1

\* the entries of a traps list: a dictionary is the record of its keys.  The
\* first two have the keys of the docstring, the next two the keys the loop
\* reads, the last has no 'oid'.
TrapEntries ==
    { [oid |-> << <<"1">>, <<"3">> >>, var |-> <<"5">>,
       type |-> upper(<<"i", "n", "t", "e", "g", "e", "r">>)],
      [oid |-> << <<"1">>, <<"3">> >>, var |-> <<"5">>],
      [oid |-> << <<"1">>, <<"3">> >>, val |-> <<"5">>,
       type |-> upper(<<"i", "n", "t", "e", "g", "e", "r">>)],
      [oid |-> << <<"1">>, <<"3">> >>, val |-> <<"5">>],
      [val |-> <<"5">>] }

TrapLists == UNION { [1..n -> TrapEntries] : n \in 0..MaxTraps }

\* what the engine answers to the calls of one pdu.add(): the call succeeds,
\* only the retry succeeds, or every call fails
AddOutcomes == { <<0, 0>>, <<1, 0>>, <<1, 1>> }

\* the engine during one send_trap(): the answers for the uptime, for the trap
\* OID and for each entry of traps
TrapEngines == [1..(2 + MaxTraps) -> AddOutcomes]

\* one pdu.add() of send_trap() as the PDU sees it: the record of the call, and
\* the variable it appended when snmp_add_var returned 0
addRecord(varOID, a) == [oid |-> varOID, raised |-> a.raised, ret |-> a.ret, calls |-> a.calls]

addedVariables(varOID, a) ==
    IF a.raised = "ok" /\ a.ret = 0 THEN << varOID >> ELSE <<>>

\* "for entry in traps:" from entry i on: [out, adds, variables]
RECURSIVE addTraps(_, _, _, _, _, _, _)
addTraps(useMib, py3, traps, engine, i, made, variables) ==
    IF i > Len(traps) THEN [out |-> "ok", adds |-> made, variables |-> variables]
    ELSE LET entry == traps[i]
         IN  IF "oid" \in DOMAIN entry
             THEN IF "val" \in DOMAIN entry
                  THEN LET varType == IF "type" \in DOMAIN entry THEN entry.type ELSE NoType
                           a == pdu_add(useMib, py3, entry.oid, entry.val, varType, engine[2 + i])
                       IN  IF a.raised # "ok"
                           THEN [out |-> a.raised, adds |-> Append(made, addRecord(entry.oid, a)),
                                 variables |-> variables]
                           ELSE addTraps(useMib, py3, traps, engine, i + 1,
                                         Append(made, addRecord(entry.oid, a)),
                                         variables \o addedVariables(entry.oid, a))
                  ELSE [out |-> "MissingVal", adds |-> made, variables |-> variables]
             ELSE [out |-> "MissingOid", adds |-> made, variables |-> variables]

\* the branch "if oid:" of send_trap(): [out, adds, variables], out being the
\* error raised or the call that sent the PDU
send_trap_out(useMib, py3, oid, uptime, traps, context, engine) ==
    LET up     == pdu_add(useMib, py3, sysUpTimeOid, uptime, <<"t">>, engine[1])
        upAdds == IF uptime # None THEN << addRecord(sysUpTimeOid, up) >> ELSE <<>>
        upVars == IF uptime # None THEN addedVariables(sysUpTimeOid, up) ELSE <<>>
        result == pdu_add(useMib, py3, snmpTrapOid, oid, <<"=">>, engine[2])
        adds2  == Append(upAdds, addRecord(snmpTrapOid, result))
        vars2  == upVars \o addedVariables(snmpTrapOid, result)
        rest   == addTraps(useMib, py3, traps, engine, 1, adds2, vars2)
    IN  IF uptime # None /\ up.raised # "ok"
        THEN [out |-> up.raised, adds |-> upAdds, variables |-> <<>>]
        ELSE IF result.raised # "ok"
        THEN [out |-> result.raised, adds |-> adds2, variables |-> upVars]
        ELSE IF result.ret # 0
        THEN [out |-> "TrapOidError", adds |-> adds2, variables |-> vars2]
        ELSE IF rest.out # "ok" THEN rest
        ELSE [out |-> IF context # "" THEN "send_v3trap" ELSE "send_v2trap",
              adds |-> rest.adds, variables |-> rest.variables]

\* send_trap(oid=..., uptime=..., traps=..., context=...)
send_trap(oid, uptime, traps, context, engine) ==
    /\ pc = "idle"
    /\ ret' = Result("send_trap",
                     [oid |-> oid, uptime |-> uptime, traps |-> traps,
                      context |-> context, engine |-> engine],
                     send_trap_out(UseMIBFiles, Python3, oid, uptime, traps, context, engine))
    /\ step /\ noLog
    /\ UNCHANGED <<status, objs, pc, raised, attempt>>
    /\ UNCHANGED configVars
    /\ UNCHANGED tableVars

\* send_trap(trap, specific) and send_trap(trap=..., specific=...): without an
\* oid the easy trap is sent, with the two numbers as C integers when both are
\* given and non-zero
send_easy_trap(given) ==
    /\ pc = "idle"
    /\ ret' = Result("send_trap", [oid |-> None, given |-> given],
                     [out |-> "send_easy_trap", adds |-> <<>>, variables |-> <<>>])
    /\ step /\ noLog
    /\ UNCHANGED <<status, objs, pc, raised, attempt>>
    /\ UNCHANGED configVars
    /\ UNCHANGED tableVars

TrapOids == { << <<"1">>, <<"3">>, <<"6">> >> }
Uptimes == { None, <<"1", "0", "0">> }

TrapInit ==
    /\ status = "REGISTRATION"
    /\ LogHandler = FALSE
    /\ UseMIBFiles \in BOOLEAN
    /\ Python3 \in BOOLEAN
    /\ objs = <<>>
    /\ pc = "idle"
    /\ raised = 0
    /\ attempt = [from |-> "none", failedFirst |-> FALSE, connected |-> FALSE, out |-> "none"]
    /\ ret = Result("init", "", "ok")
    /\ tick = 0
    /\ handlerOut = <<>>
    /\ stderrOut = <<>>
    /\ table = none
    /\ rows = <<>>
    /\ counter = 0
    /\ adds = 0
    /\ sets = 0

TrapNext ==
    \/ \E o \in TrapOids, u \in Uptimes, t \in TrapLists, c \in Contexts, e \in TrapEngines :
           send_trap(o, u, t, c, e)
    \/ \E given \in BOOLEAN : send_easy_trap(given)

TrapSpec == TrapInit /\ [][TrapNext]_vars

(***************************************************************************)
(* Requests for an object with a custom callback: the handler built by     *)
(* _build_callback_handler, which _inject_custom_handler puts in front of  *)
(* the handlers net-snmp set up for the registration.                      *)
(***************************************************************************)
SNMP_ERR_NOERROR == 0

\* the SNMP error codes a handler returns: no error, noSuchName, genErr,
\* noAccess, notWritable
HandlerResults == {SNMP_ERR_NOERROR, 2, 5, 6, 17}

MaxHandlers == 2

\* the handlers behind the custom one, handler_p[0].next being the first of
\* them and None when there is none
HandlerChains == UNION { [1..n -> {"helper"}] : n \in 0..MaxHandlers }

\* a variant: the chain is continued whatever the callback returned
callback_with_next_handler_always(callbackRet, chain, nextRet) ==
    IF chain # <<>>
    THEN [called |-> <<"custom_handler", chain[1]>>, ret |-> nextRet]
    ELSE [called |-> <<"custom_handler">>, ret |-> callbackRet]

\* callback_with_next_handler(handler_p, ...): [called, ret], called being the
\* handlers it ran, in order; nextRet is what netsnmp_call_next_handler returns
callback_with_next_handler(callbackRet, chain, nextRet) ==
    IF callbackRet # SNMP_ERR_NOERROR
    THEN [called |-> <<"custom_handler">>, ret |-> callbackRet]
    ELSE IF chain # <<>>
         THEN [called |-> <<"custom_handler", chain[1]>>, ret |-> nextRet]
         ELSE [called |-> <<"custom_handler">>, ret |-> callbackRet]

\* net-snmp calls the first handler of the chain for a request
handle_request(callbackRet, chain, nextRet) ==
    /\ pc = "idle"
    /\ ret' = Result("request",
                     [callbackRet |-> callbackRet, chain |-> chain, nextRet |-> nextRet],
                     callback_with_next_handler(callbackRet, chain, nextRet))
    /\ step /\ noLog
    /\ UNCHANGED <<status, objs, pc, raised, attempt>>
    /\ UNCHANGED configVars
    /\ UNCHANGED tableVars

HandlerInit ==
    /\ status = "REGISTRATION"
    /\ LogHandler = FALSE
    /\ UseMIBFiles = TRUE
    /\ Python3 = TRUE
    /\ objs = <<>>
    /\ pc = "idle"
    /\ raised = 0
    /\ attempt = [from |-> "none", failedFirst |-> FALSE, connected |-> FALSE, out |-> "none"]
    /\ ret = Result("init", "", "ok")
    /\ tick = 0
    /\ handlerOut = <<>>
    /\ stderrOut = <<>>
    /\ table = none
    /\ rows = <<>>
    /\ counter = 0
    /\ adds = 0
    /\ sets = 0

HandlerNext ==
    \E c \in HandlerResults, h \in HandlerChains, n \in HandlerResults : handle_request(c, h, n)

HandlerSpec == HandlerInit /\ [][HandlerNext]_vars

(***************************************************************************)
(* Properties of the agent (Spec)                                          *)
(***************************************************************************)
\* the step just taken was a call of a scalar wrapper or of Table() that got as
\* far as registering: an oidstr was given, and for a table net-snmp took the
\* column definitions (Table() defines the columns before it registers)
registeringStep ==
    /\ tick' # tick
    /\ ret'.op \in VarTypes \cup {"Table"}
    /\ ret'.arg.oidstr # None
    /\ ret'.out # "ColumnError"

\* the step just taken was the log callback, for an event of class cls
logStep(cls) ==
    /\ tick' # tick
    /\ ret'.op = "log"
    /\ eventClass(ret'.arg.msgprio, msgtextOf(ret'.arg.msg)) = cls

\* what the log callback of the step just taken passed on, and to which sink
forwardedOnce ==
    LET entry == << <<ret'.arg.msgprio, msgtextOf(ret'.arg.msg)>> >>
    IN  IF LogHandler
        THEN handlerOut' = entry /\ stderrOut' = <<>>
        ELSE handlerOut' = <<>> /\ stderrOut' = entry

C2_FailureDuringAttemptRaises ==
    (/\ pc = "idle"
     /\ ret.op = "start"
     /\ ret.arg = "REGISTRATION"
     /\ attempt.failedFirst)
        => (status = "CONNECTFAILED" /\ ret.out = "ConnectionFailed")

\* C3 (as claimed): the status is never CONNECTFAILED without start() having
\* raised the connection error for that attempt, whenever the events arrive.
C3_ConnectFailedIsRaised ==
    (pc = "idle" /\ status = "CONNECTFAILED") => attempt.out = "ConnectionFailed"

\* C4: start() in CONNECTED or RECONNECTING does nothing (no init_snmp() call,
\* no error, status unchanged); in any other status it sets FIRSTCONNECT and
\* calls init_snmp() once; nothing else calls init_snmp().
C4_StartIdempotentOnceConnected ==
    [][ /\ (tick' # tick /\ ret'.op = "start" /\ pc = "idle")
            => IF status \in {"CONNECTED", "RECONNECTING"}
               THEN /\ status' = status
                    /\ pc' = "idle"
                    /\ raised' = raised
                    /\ ret'.out = "ok"
               ELSE /\ status' = "FIRSTCONNECT"
                    /\ pc' = "init_snmp"
        /\ (pc = "idle" /\ pc' = "init_snmp") => ret'.op = "start"
      ]_vars

\* C4 witness: start() has just returned without connecting, in RECONNECTING
C4_Witness ==
    /\ ret.op = "start"
    /\ ret.arg = "RECONNECTING"
    /\ ret.out = "ok"
    /\ status = "RECONNECTING"
    /\ pc = "idle"

\* C5: a "subagent connected" event in FIRSTCONNECT or RECONNECTING gives
\* CONNECTED; a "master disconnected" event or an index-stop signal in CONNECTED
\* gives RECONNECTING.
C5_ConnectedAndDisconnected ==
    [][ /\ (logStep("connected") /\ status \in {"FIRSTCONNECT", "RECONNECTING"})
            => status' = "CONNECTED"
        /\ (logStep("disconnected") /\ status = "CONNECTED")
            => status' = "RECONNECTING"
        /\ (tick' # tick /\ ret'.op = "index_stop" /\ status = "CONNECTED")
            => status' = "RECONNECTING"
      ]_vars

\* C5 witness: inside init_snmp(), a "connected" event has just been handled
\* with no failure before it, and the status is CONNECTED
C5_Witness ==
    /\ pc = "init_snmp"
    /\ ret.op = "log"
    /\ eventClass(ret.arg.msgprio, msgtextOf(ret.arg.msg)) = "connected"
    /\ ~attempt.failedFirst
    /\ status = "CONNECTED"

\* C6: a connection-failure event in RECONNECTING leaves the status
\* RECONNECTING, raises nothing, and is passed to the log sink.
C6_FailureWhileReconnecting ==
    [][ (logStep("failure") /\ status = "RECONNECTING")
            => (status' = "RECONNECTING" /\ raised' = raised /\ forwardedOnce) ]_vars

\* C6 witness: a failure event has just been handled in RECONNECTING and was
\* handed to the LogHandler
C6_Witness ==
    /\ ret.op = "log"
    /\ eventClass(ret.arg.msgprio, msgtextOf(ret.arg.msg)) = "failure"
    /\ status = "RECONNECTING"
    /\ LogHandler
    /\ handlerOut # <<>>

\* C7 (as claimed): over any sequence of start() calls and events the
\* connection error is raised at most once.
C7_RaisedAtMostOnce == raised <= 1

\* C7 (amended): the connection error is raised only by start(), once per
\* connection attempt, and only when that attempt ends with the status
\* CONNECTFAILED; a start() call after a failed attempt is a new attempt, which
\* can raise again.
C7_RaisedOncePerFailedAttempt ==
    [][ raised' # raised
            => /\ raised' = raised + 1
               /\ pc = "init_snmp" /\ pc' = "idle"
               /\ status = "CONNECTFAILED"
               /\ ret'.op = "start" /\ ret'.out = "ConnectionFailed" ]_vars

\* C7 witness: two start() calls have each raised the connection error
C7_Witness == raised = 2 /\ ret.op = "start" /\ ret.out = "ConnectionFailed"

\* C8 (as claimed): every log event is passed, with its severity label, to
\* exactly one sink (the LogHandler when given, else the default one), except a
\* connection-failure event in FIRSTCONNECT, which is passed to none.
C8_EveryEventForwardedOnce ==
    [][ (tick' # tick /\ ret'.op = "log")
            => IF logStep("failure") /\ status = "FIRSTCONNECT"
               THEN handlerOut' = <<>> /\ stderrOut' = <<>>
               ELSE forwardedOnce ]_vars

\* C23 (as claimed): the status becomes CONNECTFAILED only from FIRSTCONNECT
\* and only on a log event whose text, the prefix stripped, matches the
\* connection-failure pattern; an event of any severity whose text does not
\* match never makes the status CONNECTFAILED.
C23_ConnectFailedOnlyOnPattern ==
    [][ (status' = "CONNECTFAILED" /\ status # "CONNECTFAILED")
            => (/\ status = "FIRSTCONNECT"
                /\ ret'.op = "log"
                /\ matchFailed(msgtextOf(ret'.arg.msg))) ]_vars

\* C24 (as claimed): while the status is REGISTRATION no log event and no
\* index-stop signal changes it; only start() leaves REGISTRATION, for
\* FIRSTCONNECT.
C24_RegistrationLeftOnlyByStart ==
    [][ (status = "REGISTRATION" /\ status' # "REGISTRATION")
            => (ret'.op = "start" /\ status' = "FIRSTCONNECT") ]_vars

\* C25 (as claimed): the status enters CONNECTED only from FIRSTCONNECT or
\* RECONNECTING and enters RECONNECTING only from CONNECTED; a connected,
\* disconnected or index-stop event in any other status leaves it unchanged.
C25_GuardedTransitions ==
    [][ /\ (status' = "CONNECTED" /\ status # "CONNECTED")
            => status \in {"FIRSTCONNECT", "RECONNECTING"}
        /\ (status' = "RECONNECTING" /\ status # "RECONNECTING")
            => status = "CONNECTED"
        /\ (logStep("connected") /\ status \notin {"FIRSTCONNECT", "RECONNECTING"})
            => status' = status
        /\ ((logStep("disconnected") \/ (tick' # tick /\ ret'.op = "index_stop"))
               /\ status # "CONNECTED")
            => status' = status ]_vars

\* C26: once the status has left REGISTRATION it never is REGISTRATION again,
\* whatever start() calls, log events, index-stop signals, check_and_process()
\* and shutdown() calls follow; so every registration after that is refused.
C26_NeverBackToRegistration ==
    [][ status # "REGISTRATION"
            => /\ status' # "REGISTRATION"
               /\ registeringStep => ret'.out = "RegistrationAfterStart" ]_vars

\* C26 witness: after a start() that failed, with the status CONNECTFAILED, a
\* registration has just been refused
C26_Witness ==
    /\ raised >= 1
    /\ status = "CONNECTFAILED"
    /\ ret.op \in VarTypes
    /\ ret.out = "RegistrationAfterStart"

(***************************************************************************)
(* Properties of the table engine (TableSpec)                              *)
(***************************************************************************)
hasRow(idx) == \E k \in 1..Len(rows) : rows[k].index_oid = indexOidOf(idx)

\* C9 (as claimed): with one integer index column, getRow((i)) after addRow((i))
\* returns the row, and after deleteRow((i)) the row is gone.
C9_GetRowAfterAddRow ==
    /\ (table.indexes = 1 /\ ret.op = "getRow" /\ hasRow(ret.arg))
           => ret.out = "row"
    /\ (table.indexes = 1 /\ ret.op = "deleteRow") => ~hasRow(ret.arg)

\* C10 (as claimed): the counter object of a table equals the number of rows
\* stored, after creation and after any addRow, deleteRow and clear calls.
C10_CounterEqualsRowCount ==
    (tableExists /\ table.counterobj) => counter = Len(rows)

\* the canonical index string of a stored row: what is right of the first dot
\* of the rendered row OID
canonicalIndex(row) == afterFirstDot(snprint_objid(row.index_oid))

\* C11 (as claimed): no table ever holds two rows with equal canonical index
\* strings, and addRow with an index tuple whose canonical index string equals
\* that of a stored row fails with the duplicate-index error and changes
\* neither the rows nor the row counter.
C11_DuplicateIndexRefused ==
    /\ [](\A j, k \in 1..Len(rows) :
             canonicalIndex(rows[j]) = canonicalIndex(rows[k]) => j = k)
    /\ [][ (/\ tick' # tick
            /\ ret'.op = "addRow"
            /\ ret'.out # "VarlistError"
            /\ hasRow(ret'.arg))
               => (/\ ret'.out = "DuplicateIndexError"
                   /\ rows' = rows
                   /\ counter' = counter) ]_vars

\* the rows other than the one of index tuple idx, in their order
rowsWithout(idx) == SelectSeq(rows, LAMBDA r : r.index_oid # indexOidOf(idx))

\* C13 (as claimed): deleteRow(indexTuple) removes exactly the row of that index
\* tuple and decrements the counter by one, every other row and its cells
\* unchanged; when no row matches it raises nothing and leaves the rows and
\* the counter unchanged.
C13_DeleteRowRemovesExactlyThatRow ==
    [][ (tick' # tick /\ ret'.op = "deleteRow")
            => /\ ret'.out = "ok"
               /\ rows' = rowsWithout(ret'.arg)
               /\ IF hasRow(ret'.arg)
                  THEN table.counterobj => counter' = counter - 1
                  ELSE counter' = counter ]_vars

\* C14: after clear() the table holds no rows and its counter object, if it
\* has one, is 0; the column schema and the registry are unchanged.
C14_ClearEmptiesTable ==
    [][ (tick' # tick /\ ret'.op = "clear")
            => /\ rows' = <<>>
               /\ table.counterobj => counter' = 0
               /\ table' = table
               /\ objs' = objs
               /\ ret'.out = "ok" ]_vars

\* C14 witness: clear() has just run on a table with a counter object, after
\* rows were added and a cell was set
C14_Witness ==
    /\ ret.op = "clear"
    /\ table.counterobj
    /\ table.columns = coldefs
    /\ adds >= 2
    /\ sets >= 1
    /\ rows = <<>>
    /\ counter = 0

(***************************************************************************)
(* Properties of the row cells (CellSpec)                                  *)
(***************************************************************************)
\* the step just taken was a setRowCell or setRowColumn call
setStep ==
    /\ tick' # tick
    /\ ret'.op \in {"setRowCell", "setRowColumn"}

\* the cells of column c are what they were, in every row
columnUntouched(c) ==
    /\ Len(rows') = Len(rows)
    /\ \A k \in 1..Len(rows) :
           /\ rows'[k].index_oid = rows[k].index_oid
           /\ (c \in DOMAIN rows'[k].data) = (c \in DOMAIN rows[k].data)
           /\ c \in DOMAIN rows[k].data => rows'[k].data[c] = rows[k].data[c]

\* C12: setting a cell of a declared column (through the row handle or through
\* the table) with an object of another type than the column's fails with an
\* error and leaves the value stored for that column unchanged.
C12_TypeMismatchRefused ==
    [][ (/\ setStep
         /\ ret'.arg.column \in DOMAIN table.columns
         /\ ret'.arg.snmpobj.type # table.columns[ret'.arg.column].type)
            => (ret'.out # "ok" /\ columnUntouched(ret'.arg.column)) ]_vars

\* C12 witness: setRowColumn found the row, whose cell had been set to "7"
\* before, and failed on an object of another type; the cell still holds "7"
C12_Witness ==
    /\ ret.op = "setRowColumn"
    /\ ret.out = "SetRowColumnError"
    /\ ret.arg.row > 0
    /\ ret.arg.snmpobj.type # table.columns[ret.arg.column].type
    /\ rows[ret.arg.row].data[ret.arg.column].value = "7"

\* C27 (as claimed): setRowColumn(indices, column, value) finds the row by a
\* scan of the table as it is at the call: when a row of those indices is
\* stored, the value (of the declared column's type) is written to that row's
\* column and to nothing else; when none is stored, the call fails with an
\* error and changes no row.
C27_SetRowColumnFindsStoredRow ==
    [][ (tick' # tick /\ ret'.op = "setRowColumn")
            => LET a == ret'.arg
               IN  IF hasRow(a.indices)
                   THEN (/\ a.column \in DOMAIN table.columns
                         /\ a.snmpobj.type = table.columns[a.column].type)
                            => /\ ret'.out = "ok"
                               /\ \E k \in 1..Len(rows) :
                                      /\ rows[k].index_oid = indexOidOf(a.indices)
                                      /\ rows' = [rows EXCEPT
                                                     ![k].data[a.column] = a.snmpobj]
                   ELSE ret'.out # "ok" /\ rows' = rows ]_vars

\* C20 (as claimed): setting a cell in a column number the table's schema does
\* not declare fails with the unknown-column error and adds no value for that
\* column to the row (a setRowColumn call that finds no row fails with the
\* row-not-found error instead).
C20_UnknownColumnRefused ==
    [][ (setStep /\ ret'.arg.column \notin DOMAIN table.columns)
            => (/\ ret'.out \in {"UnknownColumnError", "RowNotFound"}
                /\ columnUntouched(ret'.arg.column)) ]_vars

\* C15 (as claimed): the dictionary value() returns holds the schema (under
\* key 0, not empty) and, besides it, exactly one entry per stored row, under
\* that row's index as _getIndices renders it, mapping column number to
\* value; the schema entry is never replaced by a row's entry.
C15_SnapshotSchemaAndOneEntryPerRow ==
    ret.op = "value"
        => /\ PyInt(0) \in DOMAIN ret.out
           /\ ret.out[PyInt(0)].sort = "schema"
           /\ ret.out[PyInt(0)].cols = schemaEntry(table.columns).cols
           /\ DOMAIN ret.out[PyInt(0)].cols # {}
           /\ Cardinality((DOMAIN ret.out) \ {PyInt(0)}) = Len(rows)
           /\ \A k \in 1..Len(rows) :
                  /\ _getIndices(rows[k]) \in DOMAIN ret.out
                  /\ ret.out[_getIndices(rows[k])] = rowEntry(rows[k])

(***************************************************************************)
(* Properties of the object registry (RegistrySpec)                        *)
(***************************************************************************)
\* the (context, oidstr) pairs the registry holds an object for
registered(registry) ==
    { <<c, o>> : c \in Contexts, o \in RegistryOids } \cap
        { p \in Contexts \X RegistryOids :
              p[1] \in DOMAIN registry /\ p[2] \in DOMAIN registry[p[1]] }

\* C16: a successful registration in REGISTRATION stores the object under
\* (context, OID string), replacing what was stored under that pair, and
\* leaves the entries under every other pair as they were.
C16_LastRegistrationWins ==
    [][ (registeringStep /\ ret'.out = "ok" /\ status = "REGISTRATION")
            => LET here == <<ret'.arg.context, ret'.arg.oidstr>>
               IN  /\ registered(objs') = registered(objs) \cup {here}
                   /\ objs'[here[1]][here[2]].type = ret'.op
                   /\ \A p \in registered(objs) \ {here} :
                          objs'[p[1]][p[2]] = objs[p[1]][p[2]] ]_vars

\* C16 witness: a scalar has just been registered under the pair the table
\* created last was registered under, and the pair now holds the scalar, while
\* another OID of that context and another context hold their objects
C16_Witness ==
    /\ ret.op = "Integer32"
    /\ ret.out = "ok"
    /\ tableExists
    /\ ret.arg = [oidstr |-> table.oidstr, context |-> table.context]
    /\ objs[table.context][table.oidstr].type = "Integer32"
    /\ Cardinality(registered(objs)) >= 3

\* C17 (as claimed): getContexts() returns exactly the contexts that hold at
\* least one registered object, whatever registrations and getRegistered()
\* and getContexts() calls came before.
C17_ContextsWithRegistrations ==
    ret.op = "getContexts"
        => ret.out = { c \in Contexts : \E o \in RegistryOids : <<c, o>> \in registered(objs) }

(***************************************************************************)
(* Properties of the OID codec (OidSpec)                                   *)
(***************************************************************************)
\* a component that is a non-negative decimal number
isNumeral(x) == x # <<>> /\ \A i \in 1..Len(x) : isDigit(x[i])

\* a numeral as a dotted-numeric OID writes it: no leading zero
isCanonicalNumeral(x) == isNumeral(x) /\ (Len(x) > 1 => x[1] # "0")

\* C18 (as claimed): without MIB files, parsing an OID string fails with the
\* invalid-OID error when a component is not a number or is negative, and
\* otherwise yields the components' values, in order, as many as there are
\* components.
C18_NumericParse ==
    (ret.op = "_prepareOID" /\ ~UseMIBFiles)
        => IF \A i \in 1..Len(ret.arg) : isNumeral(ret.arg[i])
           THEN /\ ret.out.out = "ok"
                /\ Len(ret.out.oid) = Len(ret.arg)
                /\ \A i \in 1..Len(ret.arg) : ret.out.oid[i] = decimalValue(ret.arg[i])
           ELSE ret.out.out = "InvalidOID"

\* C19 (as claimed): for every valid dotted-numeric OID string s, getRawOid(s)
\* yields an OID of as many components whose dotted decimal rendering is s.
C19_OidRoundTrip ==
    (ret.op = "getRawOid" /\ \A i \in 1..Len(ret.arg) : isCanonicalNumeral(ret.arg[i]))
        => /\ ret.out.out = "ok"
           /\ ret.out.rawOid = joinDots(ret.arg)

(***************************************************************************)
(* Properties of the trap variables (AddSpec)                              *)
(***************************************************************************)
\* the character the docstring of add() gives for a type name in lower case
documentedChar(name) ==
    IF name \in {<<"i", "n", "t", "e", "g", "e", "r">>, <<"i", "n", "t", "e", "g", "e", "r", "3", "2">>} THEN "i"
    ELSE IF name \in {<<"u", "n", "s", "i", "g", "n", "e", "d", "3", "2">>, <<"g", "a", "u", "g", "e">>} THEN "u"
    ELSE IF name = <<"u", "i", "n", "t", "e", "g", "e", "r">> THEN "3"
    ELSE IF name = <<"c", "o", "u", "n", "t", "e", "r", "3", "2">> THEN "c"
    ELSE IF name = <<"c", "o", "u", "n", "t", "e", "r", "6", "4">> THEN "C"
    ELSE IF prefix(name, 2) = <<"i", "p">> THEN "a"
    ELSE IF name \in {<<"o", "b", "j", "i", "d">>, <<"o", "i", "d">>} THEN "o"
    ELSE "?"

\* C30 (as claimed): _humanToASNtype maps each documented type name, in any
\* letter case, to its character: INTEGER and INTEGER32 to 'i', UNSIGNED32
\* and GAUGE to 'u', UINTEGER to '3', COUNTER32 to 'c', COUNTER64 to 'C', a
\* name starting with 'ip' to 'a', OBJID and OID to 'o', and a missing type
\* to '='.
C30_TypeNamesAnyCase ==
    ret.op = "_humanToASNtype"
        => ret.out = IF ret.arg = NoType THEN "=" ELSE documentedChar(lower(ret.arg))

\* a call of add() that got as far as the loop
addStep == ret.op = "add" /\ ret.out.raised = "ok"

\* C29: the loop of add() ends after one or two calls of snmp_add_var: the
\* first with the character of the requested type, a second one with '=' and
\* only when the first failed and its type was not '='; add() returns 0
\* exactly when the last call made succeeded.
C29_AtMostTwoCalls ==
    addStep
        => LET calls   == ret.out.calls
               answers == ret.arg.answers
           IN  /\ ret.out.done
               /\ Len(calls) \in {1, 2}
               /\ calls[1] = _humanToASNtype(ret.arg.varType)
               /\ Len(calls) = 2 <=> (answers[1] # 0 /\ calls[1] # "=")
               /\ Len(calls) = 2 => calls[2] = "="
               /\ ret.out.ret = 0 <=> answers[Len(calls)] = 0

\* C29 witness: add() was called with a type name, the engine refused the
\* first call and every call after it, and add() returned the error code
\* after its second call, made with '='
C29_Witness ==
    /\ addStep
    /\ Len(ret.arg.varType) > 1
    /\ \A i \in 1..MaxEngineCalls : ret.arg.answers[i] # 0
    /\ ret.out.done
    /\ ret.out.calls = <<"i", "=">>
    /\ ret.out.ret # 0

(***************************************************************************)
(* Properties of send_trap (TrapSpec)                                      *)
(***************************************************************************)
\* a call of send_trap() with an oid
trapStep == ret.op = "send_trap" /\ ret.arg.oid # None

\* the call sent the PDU
trapSent == ret.out.out \in {"send_v2trap", "send_v3trap"}

\* the failed call of snmp_add_var is call j of add number i
refusedCall(i, j) ==
    /\ i \in 1..Len(ret.out.adds)
    /\ ret.out.adds[i].raised = "ok"
    /\ j \in 1..Len(ret.out.adds[i].calls)
    /\ ret.arg.engine[IF ret.arg.uptime # None THEN i ELSE i + 1][j] # 0

\* C21 (as claimed): a non-zero result of snmp_add_var while send_trap() adds
\* the uptime, the trap OID or an entry of traps is the last engine call of
\* that send_trap(): the failed call is not repeated, nothing is added after
\* it, send_trap() raises and the trap is not sent.
C21_AddFailureSurfaced ==
    trapStep
        => \A i \in 1..Len(ret.out.adds) : \A j \in 1..Len(ret.out.adds[i].calls) :
               refusedCall(i, j)
                   => /\ j = Len(ret.out.adds[i].calls)
                      /\ i = Len(ret.out.adds)
                      /\ ~trapSent

\* an entry with the keys of the docstring: 'oid', 'var' and, optionally, 'type'
documentedEntry(entry) ==
    /\ {"oid", "var"} \subseteq DOMAIN entry
    /\ DOMAIN entry \subseteq {"oid", "var", "type"}

\* C22 (as claimed): with MIB files loaded and an engine that accepts every
\* variable, send_trap(oid=..., traps=...) with entries in the documented
\* format ('oid', 'var', optional 'type') adds one variable per entry, after
\* the uptime and the trap OID, and sends the trap without raising.
C22_DocumentedEntriesAccepted ==
    ( /\ trapStep
      /\ UseMIBFiles
      /\ \A i \in DOMAIN ret.arg.engine : ret.arg.engine[i][1] = 0
      /\ \A i \in 1..Len(ret.arg.traps) : documentedEntry(ret.arg.traps[i]) )
        => /\ trapSent
           /\ Len(ret.out.variables)
                  = Len(ret.arg.traps) + (IF ret.arg.uptime # None THEN 2 ELSE 1)

(***************************************************************************)
(* Properties of the handler chain (HandlerSpec)                           *)
(***************************************************************************)
\* C28: a request for an object with a custom callback runs the callback
\* first; when the callback returns an error code no other handler is called
\* and that code is returned; otherwise the next handler, when there is one,
\* is called once and its result returned, and when there is none the
\* callback's no-error result is returned.
C28_CallbackThenNextHandler ==
    ret.op = "request"
        => LET callbackRet == ret.arg.callbackRet
               chain       == ret.arg.chain
               called      == ret.out.called
           IN  /\ called[1] = "custom_handler"
               /\ callbackRet # SNMP_ERR_NOERROR
                      => (called = <<"custom_handler">> /\ ret.out.ret = callbackRet)
               /\ (callbackRet = SNMP_ERR_NOERROR /\ chain # <<>>)
                      => /\ called = <<"custom_handler", chain[1]>>
                         /\ ret.out.ret = ret.arg.nextRet
               /\ (callbackRet = SNMP_ERR_NOERROR /\ chain = <<>>)
                      => (called = <<"custom_handler">> /\ ret.out.ret = SNMP_ERR_NOERROR)

\* C28 witness: the callback returned an error code with handlers behind it
\* that would have returned no error, and the request ended with the
\* callback's code after the callback alone
C28_Witness ==
    /\ ret.op = "request"
    /\ ret.arg.callbackRet # SNMP_ERR_NOERROR
    /\ ret.arg.chain # <<>>
    /\ ret.arg.nextRet = SNMP_ERR_NOERROR
    /\ ret.out.called = <<"custom_handler">>
    /\ ret.out.ret = ret.arg.callbackRet

====
